---------------------------- MODULE Spec2Model ----------------------------
(***************************************************************************)
(* A model of the CV formatting engine of cv-optimizer (src/app.py):       *)
(* sanitize_text, PDF.parse_cv_sections, PDF.format_cv, PDF.add_experience,*)
(* PDF.add_wrapped_text, PDF.add_bullet_point and the page layout that the *)
(* PDF class configures (margins, automatic page break, header, footer).   *)
(*                                                                         *)
(* A Python string is a sequence of one-character strings.  A code point   *)
(* outside ASCII is written as the token "uXXXX" of its code point.        *)
(***************************************************************************)
EXTENDS Integers, Sequences, FiniteSets, TLC

VARIABLES
    pc,               \* position of the run: which call comes next
    cv_text,          \* the text handed to format_cv
    text,             \* the text handed to sanitize_text / a rendering call
    out1,             \* sanitize_text(text)
    out2,             \* sanitize_text(sanitize_text(text))
    lines,            \* parse_cv_sections: the lines not yet scanned
    sections,         \* parse_cv_sections: the map section key -> content
    current_section,  \* parse_cv_sections: the open section (<<>> is None)
    current_content,  \* parse_cv_sections: the lines of the open section
    words,            \* the wrap loop: the words not yet placed
    line,             \* the wrap loop: the words of the line being filled
    frame,            \* the wrap loop: the locals of the running call
    pdf               \* the PDF object: cursor, page, style and what was drawn

vars == <<pc, cv_text, text, out1, out2, lines, sections, current_section,
          current_content, words, line, frame, pdf>>

sanVars == <<out1, out2>>
parseVars == <<lines, sections, current_section, current_content>>
loopVars == <<words, line, frame>>

-----------------------------------------------------------------------------
(* Bounds of the model. *)

MaxSanLen == 4
MaxWrapLen == 7
MaxPages == 3
MaxLines == 4

-----------------------------------------------------------------------------
(* Python's str operations, on sequences of characters. *)

\* str.isspace for one character: the whitespace str.split() and str.strip() use.
IsSpace(c) == c \in {" ", "\n", "\t", "u00a0", "u2028", "u2029", "u202f", "u3000"}

Min(S) == CHOOSE m \in S : \A n \in S : m <= n
Max(S) == CHOOSE m \in S : \A n \in S : m >= n

\* s.strip()
Strip(s) ==
    LET keep == {i \in 1..Len(s) : ~IsSpace(s[i])}
    IN  IF keep = {} THEN <<>> ELSE SubSeq(s, Min(keep), Max(keep))

\* s.split(): the maximal runs of non-whitespace characters, in order.
RECURSIVE SplitWsFrom(_, _, _)
SplitWsFrom(s, i, cur) ==
    IF i > Len(s)
    THEN IF cur = <<>> THEN <<>> ELSE <<cur>>
    ELSE IF IsSpace(s[i])
         THEN (IF cur = <<>> THEN <<>> ELSE <<cur>>) \o SplitWsFrom(s, i + 1, <<>>)
         ELSE SplitWsFrom(s, i + 1, Append(cur, s[i]))

SplitWs(s) == SplitWsFrom(s, 1, <<>>)

\* sep.join(parts)
RECURSIVE Join(_, _)
Join(parts, sep) ==
    IF parts = <<>> THEN <<>>
    ELSE IF Len(parts) = 1 THEN parts[1]
    ELSE parts[1] \o sep \o Join(Tail(parts), sep)

\* sub in s
Contains(s, sub) ==
    \E i \in 0..(Len(s) - Len(sub)) : SubSeq(s, i + 1, i + Len(sub)) = sub

\* s.find(sub) + 1, or 0 when sub is not in s
Find(s, sub) ==
    LET at == {i \in 1..(Len(s) - Len(sub) + 1) : SubSeq(s, i, i + Len(sub) - 1) = sub}
    IN  IF at = {} THEN 0 ELSE Min(at)

\* s.split(sep, 1): one or two parts
SplitOnce(s, sep) ==
    LET i == Find(s, sep)
    IN  IF i = 0 THEN <<s>>
        ELSE <<SubSeq(s, 1, i - 1), SubSeq(s, i + Len(sep), Len(s))>>

\* s.split(sep)
RECURSIVE SplitOn(_, _)
SplitOn(s, sep) ==
    LET i == Find(s, sep)
    IN  IF i = 0 THEN <<s>>
        ELSE <<SubSeq(s, 1, i - 1)>> \o SplitOn(SubSeq(s, i + Len(sep), Len(s)), sep)

\* s.replace(old, new) for a one-character old
RECURSIVE Replace(_, _, _)
Replace(s, old, new) ==
    IF s = <<>> THEN <<>>
    ELSE (IF Head(s) = old THEN new ELSE <<Head(s)>>) \o Replace(Tail(s), old, new)

LowerLetters == <<"a","b","c","d","e","f","g","h","i","j","k","l","m",
                  "n","o","p","q","r","s","t","u","v","w","x","y","z">>
UpperLetters == <<"A","B","C","D","E","F","G","H","I","J","K","L","M",
                  "N","O","P","Q","R","S","T","U","V","W","X","Y","Z">>

UpperChar(c) ==
    IF \E i \in 1..26 : LowerLetters[i] = c
    THEN UpperLetters[CHOOSE i \in 1..26 : LowerLetters[i] = c] ELSE c
LowerChar(c) ==
    IF \E i \in 1..26 : UpperLetters[i] = c
    THEN LowerLetters[CHOOSE i \in 1..26 : UpperLetters[i] = c] ELSE c

\* s.upper(), s.lower()
Upper(s) == [i \in 1..Len(s) |-> UpperChar(s[i])]
Lower(s) == [i \in 1..Len(s) |-> LowerChar(s[i])]

\* s.startswith(('*', 'u2022', '-')): s starts with one of the characters
StartsWithAny(s, cs) == s # <<>> /\ s[1] \in cs
\* s.endswith(c)
EndsWith(s, c) == s # <<>> /\ s[Len(s)] = c
\* s.rstrip(c)
RECURSIVE RStrip(_, _)
RStrip(s, c) == IF EndsWith(s, c) THEN RStrip(SubSeq(s, 1, Len(s) - 1), c) ELSE s

\* All strings over the alphabet A of length at most n.
StringsUpTo(A, n) == UNION {[1..k -> A] : k \in 0..n}

-----------------------------------------------------------------------------
(* sanitize_text *)

\* The replacements of sanitize_text, in the order of the source.
ReplaceAll(t0) ==
    LET t1  == Replace(t0,  "u2022", <<"*">>)
        t2  == Replace(t1,  "u00b7", <<"*">>)
        t3  == Replace(t2,  "u25cb", <<"*">>)
        t4  == Replace(t3,  "u25e6", <<"*">>)
        t5  == Replace(t4,  "u2192", <<"-", ">">>)
        t6  == Replace(t5,  "u2014", <<"-">>)
        t7  == Replace(t6,  "u2013", <<"-">>)
        t8  == Replace(t7,  "u00a0", <<" ">>)
        t9  == Replace(t8,  "u200b", <<>>)
        t10 == Replace(t9,  "u200c", <<>>)
        t11 == Replace(t10, "u200d", <<>>)
        t12 == Replace(t11, "u202f", <<" ">>)
        t13 == Replace(t12, "ufeff", <<>>)
        t14 == Replace(t13, "u2028", <<"\n">>)
        t15 == Replace(t14, "u2029", <<"\n">>)
    IN  t15

\* A sanitize_text that collapses the whitespace before it removes the
\* zero-width code points.
sanitize_text_collapse_first(t) == ReplaceAll(Join(SplitWs(t), <<" ">>))

sanitize_text(t) == Join(SplitWs(ReplaceAll(t)), <<" ">>)

-----------------------------------------------------------------------------
(* The PDF object: the page geometry PDF.__init__ sets, and the cell, ln,  *)
(* add_page, header and footer calls that move the cursor.  Lengths are in *)
(* millimetres, as in FPDF.                                                *)

PageW == 210
PageH == 297
l_margin == 15
t_margin == 15
r_margin == 15
b_margin == 15
section_spacing == 10
line_height == 6
bullet_char == <<"-">>

header_text_color == "white"
label_color == "gray"
link_color == "blue"

\* set_auto_page_break(auto=False, ...): cells are placed where the cursor is.
AutoPageBreakOff == FALSE

\* set_auto_page_break(auto=True, margin=15)
AutoPageBreak == TRUE

\* The y beyond which a cell does not fit on the page.
PageBreakTrigger == PageH - b_margin

\* The PDF object after PDF(): no page yet.
NewPDF ==
    [x |-> 0, y |-> 0, page |-> 0, font |-> <<"", "", 12>>, color |-> "black",
     ok |-> TRUE, log |-> <<>>]

Band(op, p, y, h, txt) ==
    [op |-> op, page |-> p.page, x |-> p.x, y |-> y, w |-> 0, h |-> h, ln |-> 0,
     txt |-> txt, font |-> p.font, color |-> p.color]

\* The band cell of a header or footer, drawn where the cursor is.
DrawBand(q, op, h, x_after, y_after) ==
    [q EXCEPT !.log = Append(@, Band(op, q, q.y, h, <<>>)),
              !.x = x_after, !.y = y_after]

\* PDF.footer: one cell of height 10 at 15 mm above the page's bottom edge.
footer(p) ==
    DrawBand([p EXCEPT !.x = l_margin, !.y = PageH - 15,
                       !.font = <<"Helvetica", "I", 8>>, !.color = "gray128"],
             "footer", 10, PageW - r_margin, PageH - 15)

\* PDF.header: the band, its title cell of height 25, then ln(20).
header(p) ==
    DrawBand([p EXCEPT !.font = <<"Helvetica", "B", 20>>,
                       !.color = header_text_color],
             "header", 25, l_margin, p.y + 25 + 20)

\* The cursor at the top of a new page, with the style of the caller p.
BeginPage(f, p) ==
    [f EXCEPT !.page = p.page + 1, !.x = l_margin, !.y = t_margin,
              !.font = p.font, !.color = p.color]

\* The style of the caller p put back after the header (a font, once one is set).
RestoreStyle(h, p) ==
    [h EXCEPT !.font = IF p.font[1] = "" THEN h.font ELSE p.font,
              !.color = p.color]

\* add_page: the footer of the page that ends, the new page, its header; the
\* font and colour of the caller are put back after the header.
add_page(p) ==
    RestoreStyle(header(BeginPage(IF p.page > 0 THEN footer(p) ELSE p, p)), p)

\* The cell drawn where the cursor is, and the cursor moved past it.
Place(q, w, h, txt, ln_) ==
    [q EXCEPT !.log = Append(@, [op |-> "text", page |-> q.page, x |-> q.x,
                                 y |-> q.y, w |-> w, h |-> h, ln |-> ln_,
                                 txt |-> txt, font |-> q.font, color |-> q.color]),
              !.y = IF ln_ > 0 THEN q.y + h ELSE q.y,
              !.x = IF ln_ = 1 THEN l_margin
                    ELSE q.x + (IF w = 0 THEN PageW - r_margin - q.x ELSE w)]

\* cell(w, h, txt, border, ln, align): breaks the page first when the cell does
\* not fit (the x of the cursor is kept), draws, then moves the cursor.
Cell(p, w, h, txt, ln_) ==
    Place(IF AutoPageBreak /\ p.y + h > PageBreakTrigger
          THEN [add_page(p) EXCEPT !.x = p.x] ELSE p,
          w, h, txt, ln_)

\* ln(h)
Ln(p, h) == [p EXCEPT !.x = l_margin, !.y = p.y + h]

set_font(p, family, style, size) == [p EXCEPT !.font = <<family, style, size>>]
set_text_color(p, c) == [p EXCEPT !.color = c]
set_x(p, x) == [p EXCEPT !.x = x]

\* line(x1, y1, x2, y2): a rule; the cursor stays.
Rule(p, x1, y1, x2, y2) ==
    [p EXCEPT !.log = Append(@, [op |-> "rule", page |-> p.page, x |-> x1, y |-> y1,
                                 x2 |-> x2, y2 |-> y2])]

\* get_string_width: the sum of the widths of the characters.  The font
\* metrics are those of a wide face: 80 for "m", "M" and "W", 20 for the rest.
CharWidth(c) == IF c \in {"m", "M", "W"} THEN 80 ELSE 20

RECURSIVE get_string_width(_)
get_string_width(s) ==
    IF s = <<>> THEN 0 ELSE CharWidth(Head(s)) + get_string_width(Tail(s))

-----------------------------------------------------------------------------
(* The greedy wrap loops of add_wrapped_text and add_bullet_point.  The    *)
(* state of a loop is the PDF object and the line being filled.            *)

Space == <<" ">>

\* The width add_wrapped_text wraps against.
WrappedWidth == PageW - r_margin - l_margin

\* add_wrapped_text up to its loop: the style and the words.
wrapped_begin(p) ==
    set_text_color(set_font(p, "Helvetica", "", 11), "black")

\* A loop body that measures the line without the new word.
wrapped_step_measures_line(st, word) ==
    IF get_string_width(Join(st.line, Space)) > WrappedWidth
    THEN IF st.line # <<>>
         THEN [pdf |-> Cell(st.pdf, 0, line_height, Join(st.line, Space), 1),
               line |-> <<word>>]
         ELSE [pdf |-> Cell(st.pdf, 0, line_height, word, 1), line |-> st.line]
    ELSE [pdf |-> st.pdf, line |-> Append(st.line, word)]

\* A loop body that starts the new line empty after printing a full one.
wrapped_step_drops_word(st, word) ==
    IF get_string_width(Join(Append(st.line, word), Space)) > WrappedWidth
    THEN IF st.line # <<>>
         THEN [pdf |-> Cell(st.pdf, 0, line_height, Join(st.line, Space), 1),
               line |-> <<>>]
         ELSE [pdf |-> Cell(st.pdf, 0, line_height, word, 1), line |-> st.line]
    ELSE [pdf |-> st.pdf, line |-> Append(st.line, word)]

\* One iteration of the loop of add_wrapped_text.
wrapped_step(st, word) ==
    LET test_line == Join(Append(st.line, word), Space)
        test_width == get_string_width(test_line)
    IN  IF test_width > WrappedWidth
        THEN IF st.line # <<>>
             THEN [pdf |-> Cell(st.pdf, 0, line_height, Join(st.line, Space), 1),
                   line |-> <<word>>]
             ELSE [pdf |-> Cell(st.pdf, 0, line_height, word, 1), line |-> st.line]
        ELSE [pdf |-> st.pdf, line |-> Append(st.line, word)]

\* add_wrapped_text after its loop: the last line.
wrapped_end(st) ==
    IF st.line # <<>>
    THEN Cell(st.pdf, 0, line_height, Join(st.line, Space), 1)
    ELSE st.pdf

RECURSIVE wrapped_loop(_, _)
wrapped_loop(st, ws) ==
    IF ws = <<>> \/ ~st.pdf.ok THEN st ELSE wrapped_loop(wrapped_step(st, Head(ws)), Tail(ws))

add_wrapped_text(p, t) ==
    wrapped_end(wrapped_loop([pdf |-> wrapped_begin(p), line |-> <<>>],
                             SplitWs(sanitize_text(t))))

\* The x at which add_bullet_point places its text.
BulletTextX(start_x, indent) == start_x + indent + 5

\* The width add_bullet_point wraps against.
BulletWidth(start_x, indent) == PageW - r_margin - (start_x + indent + 5)

\* add_bullet_point up to its loop: the style, the indent cell and the glyph.
bullet_begin(p, indent) ==
    LET p1 == set_text_color(set_font(p, "Helvetica", "", 11), "black")
        p2 == Cell(p1, indent, line_height, <<>>, 0)
        p3 == Cell(set_text_color(p2, link_color), 3, line_height, bullet_char, 0)
    IN  set_text_color(p3, "black")

\* A loop body that leaves the cursor where the last cell left it.
bullet_step_no_set_x(st, word, start_x, indent) ==
    LET available_width == BulletWidth(start_x, indent)
        test_width == get_string_width(Join(Append(st.line, word), Space))
    IN  IF test_width > available_width
        THEN IF st.line # <<>>
             THEN [pdf |-> Cell(st.pdf, available_width, line_height,
                                Join(st.line, Space), 1),
                   line |-> <<word>>]
             ELSE [pdf |-> Cell(st.pdf, available_width, line_height, word, 1),
                   line |-> st.line]
        ELSE [pdf |-> st.pdf, line |-> Append(st.line, word)]

\* One iteration of the loop of add_bullet_point.
bullet_step(st, word, start_x, indent) ==
    LET available_width == BulletWidth(start_x, indent)
        test_line == Join(Append(st.line, word), Space)
        test_width == get_string_width(test_line)
        at == set_x(st.pdf, BulletTextX(start_x, indent))
    IN  IF test_width > available_width
        THEN IF st.line # <<>>
             THEN [pdf |-> Cell(at, available_width, line_height,
                                Join(st.line, Space), 1),
                   line |-> <<word>>]
             ELSE [pdf |-> Cell(at, available_width, line_height, word, 1),
                   line |-> st.line]
        ELSE [pdf |-> st.pdf, line |-> Append(st.line, word)]

\* add_bullet_point after its loop: the last line, then ln(1).
bullet_end(st, start_x, indent) ==
    LET p == IF st.line # <<>>
             THEN Cell(set_x(st.pdf, BulletTextX(start_x, indent)),
                       BulletWidth(start_x, indent), line_height,
                       Join(st.line, Space), 1)
             ELSE st.pdf
    IN  Ln(p, 1)

RECURSIVE bullet_loop(_, _, _, _)
bullet_loop(st, ws, start_x, indent) ==
    IF ws = <<>> \/ ~st.pdf.ok THEN st
    ELSE bullet_loop(bullet_step(st, Head(ws), start_x, indent), Tail(ws),
                     start_x, indent)

add_bullet_point(p, t, indent) ==
    LET start_x == p.x
    IN  bullet_end(bullet_loop([pdf |-> bullet_begin(p, indent), line |-> <<>>],
                               SplitWs(sanitize_text(t)), start_x, indent),
                   start_x, indent)

-----------------------------------------------------------------------------
(* PDF.section_markers, and parse_cv_sections a line at a time. *)
PERSONAL_INFORMATION ==
    <<"P", "E", "R", "S", "O", "N", "A", "L", " ", "I", "N", "F", "O", "R", "M", "A", "T", "I", "O", "N">>
PROFESSIONAL_SUMMARY ==
    <<"P", "R", "O", "F", "E", "S", "S", "I", "O", "N", "A", "L", " ", "S", "U", "M", "M", "A", "R", "Y">>
EDUCATION ==
    <<"E", "D", "U", "C", "A", "T", "I", "O", "N">>
EXPERIENCE ==
    <<"E", "X", "P", "E", "R", "I", "E", "N", "C", "E">>
PROFESSIONAL_EXPERIENCE ==
    <<"P", "R", "O", "F", "E", "S", "S", "I", "O", "N", "A", "L", " ", "E", "X", "P", "E", "R", "I", "E", "N", "C", "E">>
SKILLS ==
    <<"S", "K", "I", "L", "L", "S">>
TECHNICAL_SKILLS ==
    <<"T", "E", "C", "H", "N", "I", "C", "A", "L", " ", "S", "K", "I", "L", "L", "S">>
PROJECTS ==
    <<"P", "R", "O", "J", "E", "C", "T", "S">>
PUBLICATIONS ==
    <<"P", "U", "B", "L", "I", "C", "A", "T", "I", "O", "N", "S">>
SELECTED_PUBLICATIONS ==
    <<"S", "E", "L", "E", "C", "T", "E", "D", " ", "P", "U", "B", "L", "I", "C", "A", "T", "I", "O", "N", "S", " ", "&", " ", "P", "A", "T", "E", "N", "T", "S">>
CERTIFICATIONS ==
    <<"C", "E", "R", "T", "I", "F", "I", "C", "A", "T", "I", "O", "N", "S">>
AWARDS_HONORS ==
    <<"A", "W", "A", "R", "D", "S", " ", "&", " ", "H", "O", "N", "O", "R", "S">>
LANGUAGES ==
    <<"L", "A", "N", "G", "U", "A", "G", "E", "S">>

section_markers ==
    <<PERSONAL_INFORMATION,
      PROFESSIONAL_SUMMARY,
      EDUCATION,
      EXPERIENCE,
      PROFESSIONAL_EXPERIENCE,
      SKILLS,
      TECHNICAL_SKILLS,
      PROJECTS,
      PUBLICATIONS,
      SELECTED_PUBLICATIONS,
      CERTIFICATIONS,
      AWARDS_HONORS,
      LANGUAGES>>

NL == <<"\n">>

\* The map with key k set to v: sections[k] = v
Put(map, k, v) ==
    [j \in (DOMAIN map) \cup {k} |-> IF j = k THEN v ELSE map[j]]

\* sections[current_section] = '\n'.join(current_content)
Flush(map, k, content) == Put(map, k, Join(content, NL))

\* The markers that match an uppercased line, by their index.
Matching(upper_line) ==
    {i \in 1..Len(section_markers) :
        \/ Contains(upper_line, section_markers[i])
        \/ Contains(section_markers[i], upper_line)}

\* A loop body that matches the markers against the line as written.
parse_line_case_sensitive(st, raw) ==
    LET ln_ == Strip(raw)
        hit == Matching(ln_)
    IN  IF ln_ = <<>> THEN st
        ELSE IF hit # {}
        THEN [sections |-> IF st.current_section # <<>>
                           THEN Flush(st.sections, st.current_section,
                                      st.current_content)
                           ELSE st.sections,
              current_section |-> section_markers[Min(hit)],
              current_content |-> <<>>]
        ELSE IF st.current_section # <<>>
        THEN [st EXCEPT !.current_content = Append(@, ln_)]
        ELSE [st EXCEPT !.current_section = PERSONAL_INFORMATION,
                        !.current_content = Append(@, ln_)]

\* A loop body that opens the last marker that matches, not the first.
parse_line_last_match(st, raw) ==
    LET ln_ == Strip(raw)
        upper_line == Upper(ln_)
        hit == Matching(upper_line)
    IN  IF ln_ = <<>> THEN st
        ELSE IF hit # {}
        THEN [sections |-> IF st.current_section # <<>>
                           THEN Flush(st.sections, st.current_section,
                                      st.current_content)
                           ELSE st.sections,
              current_section |-> section_markers[Max(hit)],
              current_content |-> <<>>]
        ELSE IF st.current_section # <<>>
        THEN [st EXCEPT !.current_content = Append(@, ln_)]
        ELSE [st EXCEPT !.current_section = PERSONAL_INFORMATION,
                        !.current_content = Append(@, ln_)]

\* The body of the loop of parse_cv_sections for one line of the text.
parse_line(st, raw) ==
    LET ln_ == Strip(raw)
        upper_line == Upper(ln_)
        hit == Matching(upper_line)
    IN  IF ln_ = <<>> THEN st
        ELSE IF hit # {}
        THEN [sections |-> IF st.current_section # <<>>
                           THEN Flush(st.sections, st.current_section,
                                      st.current_content)
                           ELSE st.sections,
              current_section |-> section_markers[Min(hit)],
              current_content |-> <<>>]
        ELSE IF st.current_section # <<>>
        THEN [st EXCEPT !.current_content = Append(@, ln_)]
        ELSE [st EXCEPT !.current_section = PERSONAL_INFORMATION,
                        !.current_content = Append(@, ln_)]

\* parse_cv_sections after its loop: the last section, when it has content.
parse_end(st) ==
    IF st.current_section # <<>> /\ st.current_content # <<>>
    THEN Flush(st.sections, st.current_section, st.current_content)
    ELSE st.sections

\* The loop of parse_cv_sections over the lines of the text.
RECURSIVE parse_lines(_, _)
parse_lines(st, ls) ==
    IF ls = <<>> THEN st ELSE parse_lines(parse_line(st, Head(ls)), Tail(ls))

\* parse_cv_sections(cv_text): the map of the sections of the text.
parse_cv_sections(t) ==
    parse_end(parse_lines([sections |-> <<>>, current_section |-> <<>>,
                           current_content |-> <<>>], SplitOn(t, NL)))

-----------------------------------------------------------------------------
(* format_cv and the methods it renders with. *)

\* A method call noted in what the PDF object drew.
Call(p, ev) == [p EXCEPT !.log = Append(@, ev)]

BulletGlyphs == {"*", "u2022", "-"}

\* The separator line of a section title, at the y of the cursor.
title_rule(p) == Rule(p, l_margin, p.y, PageW - r_margin, p.y)

add_section_title(p, title) ==
    LET p1 == Ln(p, 5)
        p2 == set_text_color(set_font(p1, "Helvetica", "B", 14), "black")
        p3 == Cell(p2, 0, 10, Upper(title), 1)
        p4 == Ln(p3, 1)
        p5 == title_rule(p4)
    IN  Ln(p5, 5)

add_personal_info_item(p, label, value) ==
    LET label_width == 40
        p1 == set_text_color(set_font(p, "Helvetica", "B", 11), label_color)
        p2 == Cell(p1, label_width, line_height, label \o <<":">>, 0)
        p3 == set_text_color(set_font(p2, "Helvetica", "", 11), "black")
    IN  Cell(p3, 0, line_height, value, 1)

\* A description line of an entry: a bullet point or a wrapped line.
description_point(p, point) ==
    IF Strip(point) = <<>> THEN p
    ELSE IF StartsWithAny(Strip(point), BulletGlyphs)
    THEN add_bullet_point(p, Strip(Tail(Strip(point))), 5)
    ELSE add_wrapped_text(p, Strip(point))

RECURSIVE description_points(_, _)
description_points(p, points) ==
    IF points = <<>> \/ ~p.ok THEN p
    ELSE description_points(description_point(p, Head(points)), Tail(points))

\* The role and company add_experience renders; ok is FALSE where the unpacking
\* of a split that found no separator raises ValueError.
split_role_company(role_company, company) ==
    IF Contains(role_company, <<" ", "-", " ">>)
    THEN LET parts == SplitOnce(role_company, <<" ", "-", " ">>)
         IN  [ok |-> TRUE, role |-> parts[1], company |-> parts[2]]
    ELSE IF Contains(Lower(role_company), <<" ", "a", "t", " ">>)
    THEN LET parts == SplitOnce(role_company, <<" ", "a", "t", " ">>)
         IN  IF Len(parts) = 2
             THEN [ok |-> TRUE, role |-> parts[1], company |-> parts[2]]
             ELSE [ok |-> FALSE, role |-> <<>>, company |-> <<>>]
    ELSE IF Contains(role_company, <<"|">>)
    THEN LET parts == SplitOnce(role_company, <<"|">>)
         IN  [ok |-> TRUE, role |-> parts[1], company |-> parts[2]]
    ELSE [ok |-> TRUE, role |-> role_company, company |-> company]

\* The separator line add_experience draws when the cursor is below y = 50.
experience_separator(p) ==
    IF p.y > 50
    THEN Ln(Rule(p, l_margin + 10, p.y - 2, PageW - r_margin - 10, p.y - 2), 4)
    ELSE p

\* add_experience from its separator line on, with the role and company found.
experience_body(p, role, company, dates, description) ==
    LET p1 == experience_separator(
                  Call(p, [op |-> "add_experience", role |-> role,
                           company |-> company, dates |-> dates,
                           description |-> description]))
        p2 == set_text_color(set_font(p1, "Helvetica", "B", 11), "black")
        p3 == add_wrapped_text(p2, role)
        p4 == set_text_color(set_font(p3, "Helvetica", "", 11), link_color)
        p5 == add_wrapped_text(p4, company)
        p6 == set_text_color(set_font(p5, "Helvetica", "I", 10), label_color)
        p7 == add_wrapped_text(p6, dates)
        p8 == Ln(p7, 2)
        p9 == description_points(p8, SplitOn(description, NL))
    IN  Ln(p9, 8)

\* add_experience once the role and company are split: rc.ok is FALSE where
\* the split raised, and nothing is drawn then.
experience_split(p, rc, dates, description) ==
    IF ~rc.ok THEN [p EXCEPT !.ok = FALSE]
    ELSE experience_body(p, Strip(rc.role), Strip(rc.company), dates, description)

add_experience(p, role_company, company_, dates, description) ==
    experience_split(p, split_role_company(role_company, company_), dates,
                     description)

\* [line.strip() for line in entry.split('\n') if line.strip()]
RECURSIVE StrippedLines(_)
StrippedLines(ls) ==
    IF ls = <<>> THEN <<>>
    ELSE (IF Strip(Head(ls)) = <<>> THEN <<>> ELSE <<Strip(Head(ls))>>)
         \o StrippedLines(Tail(ls))

-----------------------------------------------------------------------------
(* The sections of format_cv, in the order of the source. *)

TitlePersonal ==
    <<"P", "e", "r", "s", "o", "n", "a", "l", " ", "I", "n", "f", "o", "r", "m", "a", "t", "i", "o", "n">>
TitleSummary ==
    <<"P", "r", "o", "f", "e", "s", "s", "i", "o", "n", "a", "l", " ", "S", "u", "m", "m", "a", "r", "y">>
TitleEducation ==
    <<"E", "d", "u", "c", "a", "t", "i", "o", "n">>
TitleExperience ==
    <<"P", "r", "o", "f", "e", "s", "s", "i", "o", "n", "a", "l", " ", "E", "x", "p", "e", "r", "i", "e", "n", "c", "e">>
TitleSkills ==
    <<"T", "e", "c", "h", "n", "i", "c", "a", "l", " ", "S", "k", "i", "l", "l", "s">>

\* One line of the personal information section.
personal_line(p, ln_) ==
    IF Contains(ln_, <<":">>)
    THEN LET parts == SplitOnce(ln_, <<":">>)
         IN  add_personal_info_item(p, Strip(parts[1]), Strip(parts[2]))
    ELSE add_wrapped_text(set_font(p, "Helvetica", "", 11), ln_)

RECURSIVE personal_lines(_, _)
personal_lines(p, ls) ==
    IF ls = <<>> \/ ~p.ok THEN p ELSE personal_lines(personal_line(p, Head(ls)), Tail(ls))

format_personal(p, map) ==
    IF PERSONAL_INFORMATION \in DOMAIN map
    THEN Ln(personal_lines(add_section_title(p, TitlePersonal),
                           SplitOn(map[PERSONAL_INFORMATION], NL)),
            section_spacing)
    ELSE p

format_summary(p, map) ==
    IF PROFESSIONAL_SUMMARY \in DOMAIN map
    THEN Ln(add_wrapped_text(add_section_title(p, TitleSummary),
                             map[PROFESSIONAL_SUMMARY]),
            section_spacing)
    ELSE p

\* A line of a section that is a bullet point or a wrapped line.
bullet_or_text(p, ln_) ==
    IF StartsWithAny(Strip(ln_), BulletGlyphs)
    THEN add_bullet_point(p, Strip(Tail(Strip(ln_))), 5)
    ELSE add_wrapped_text(set_font(p, "Helvetica", "", 11), ln_)

RECURSIVE bullet_or_text_lines(_, _)
bullet_or_text_lines(p, ls) ==
    IF ls = <<>> \/ ~p.ok THEN p
    ELSE bullet_or_text_lines(bullet_or_text(p, Head(ls)), Tail(ls))

\* The institution line of an education entry, when it has one.
education_institution(p, ls) ==
    IF Len(ls) > 1
    THEN set_text_color(
             add_wrapped_text(
                 set_text_color(set_font(p, "Helvetica", "", 11), link_color),
                 ls[2]),
             "black")
    ELSE p

\* The lines of an education entry: degree, institution, further lines.
education_lines(p, ls) ==
    IF ls # <<>>
    THEN bullet_or_text_lines(
             education_institution(
                 add_wrapped_text(set_font(p, "Helvetica", "B", 11), ls[1]), ls),
             SubSeq(ls, 3, Len(ls)))
    ELSE p

\* One entry of the education section.
education_entry(p, entry) ==
    IF Strip(entry) = <<>> THEN p
    ELSE Ln(education_lines(p, StrippedLines(SplitOn(entry, NL))), 5)

RECURSIVE education_entries(_, _)
education_entries(p, es) ==
    IF es = <<>> \/ ~p.ok THEN p
    ELSE education_entries(education_entry(p, Head(es)), Tail(es))

format_education(p, map) ==
    IF EDUCATION \in DOMAIN map
    THEN Ln(education_entries(add_section_title(p, TitleEducation),
                              SplitOn(map[EDUCATION], <<"\n", "\n">>)),
            section_spacing)
    ELSE p

\* role, company of a role line: split at the first '|', if it has one.
role_line_parts(role_line) ==
    IF Contains(role_line, <<"|">>)
    THEN SplitOnce(role_line, <<"|">>)
    ELSE <<role_line, <<>> >>

\* The add_experience call for the parts of a role line.
experience_of_parts(p, parts, dates_loc, description) ==
    add_experience(p, Strip(parts[1]), Strip(parts[2]), dates_loc, description)

\* The entry of the stripped, non-empty lines of a block: two lines at least.
experience_block(p, ls) ==
    IF Len(ls) >= 2
    THEN experience_of_parts(p, role_line_parts(ls[1]), ls[2],
                             Join(SubSeq(ls, 3, Len(ls)), NL))
    ELSE p

\* One entry of an experience section; nothing more is done once a call raised.
experience_entry(p, entry) ==
    IF ~p.ok \/ Strip(entry) = <<>> THEN p
    ELSE experience_block(p, StrippedLines(SplitOn(entry, NL)))

RECURSIVE experience_entries(_, _)
experience_entries(p, es) ==
    IF es = <<>> \/ ~p.ok THEN p
    ELSE experience_entries(experience_entry(p, Head(es)), Tail(es))

\* The spacing after a section, unless a call raised.
spacing_unless_raised(q) == IF q.ok THEN Ln(q, section_spacing) ELSE q

\* One of the two experience sections.
experience_section(p, map, key) ==
    IF p.ok /\ key \in DOMAIN map
    THEN spacing_unless_raised(
             experience_entries(add_section_title(p, TitleExperience),
                                SplitOn(map[key], <<"\n", "\n">>)))
    ELSE p

format_experience(p, map) ==
    experience_section(experience_section(p, map, EXPERIENCE), map,
                       PROFESSIONAL_EXPERIENCE)

\* One line of the skills section.
skills_line(p, raw) ==
    LET ln_ == Strip(raw)
    IN  IF ln_ = <<>> THEN p
        ELSE IF EndsWith(ln_, ":")
        THEN set_text_color(
                 add_wrapped_text(
                     set_text_color(set_font(p, "Helvetica", "B", 11), link_color),
                     RStrip(ln_, ":")),
                 "black")
        ELSE IF StartsWithAny(ln_, BulletGlyphs)
        THEN add_bullet_point(p, Strip(Tail(ln_)), 5)
        ELSE add_wrapped_text(set_font(p, "Helvetica", "", 11), ln_)

RECURSIVE skills_lines(_, _)
skills_lines(p, ls) ==
    IF ls = <<>> \/ ~p.ok THEN p ELSE skills_lines(skills_line(p, Head(ls)), Tail(ls))

format_skills(p, map) ==
    IF TECHNICAL_SKILLS \in DOMAIN map \/ SKILLS \in DOMAIN map
    THEN LET skills_text == IF TECHNICAL_SKILLS \in DOMAIN map
                            THEN map[TECHNICAL_SKILLS] ELSE map[SKILLS]
         IN  Ln(skills_lines(add_section_title(p, TitleSkills),
                             SplitOn(skills_text, NL)),
                section_spacing)
    ELSE p

\* The other sections with the languages first.
other_sections_languages_first ==
    <<LANGUAGES, PROJECTS, PUBLICATIONS, SELECTED_PUBLICATIONS, CERTIFICATIONS,
      AWARDS_HONORS>>

other_sections ==
    <<PROJECTS, PUBLICATIONS, SELECTED_PUBLICATIONS, CERTIFICATIONS,
      AWARDS_HONORS, LANGUAGES>>

\* One line of one of the other sections.
other_line(p, raw) ==
    LET ln_ == Strip(raw)
    IN  IF ln_ = <<>> THEN p
        ELSE IF EndsWith(ln_, ":")
        THEN add_wrapped_text(set_font(p, "Helvetica", "B", 11), ln_)
        ELSE IF StartsWithAny(ln_, BulletGlyphs)
        THEN add_bullet_point(p, Strip(Tail(ln_)), 5)
        ELSE add_wrapped_text(set_font(p, "Helvetica", "", 11), ln_)

RECURSIVE other_lines(_, _)
other_lines(p, ls) ==
    IF ls = <<>> \/ ~p.ok THEN p ELSE other_lines(other_line(p, Head(ls)), Tail(ls))

RECURSIVE format_other(_, _, _)
format_other(p, map, keys) ==
    IF keys = <<>> \/ ~p.ok THEN p
    ELSE LET key == Head(keys)
             q == IF key \in DOMAIN map
                  THEN Ln(other_lines(add_section_title(p, key),
                                      SplitOn(map[key], NL)),
                          section_spacing)
                  ELSE p
         IN  format_other(q, map, Tail(keys))

-----------------------------------------------------------------------------
(* The specification of the sanitizer: any short text, sanitized twice. *)

SanAlphabet == {"a", " ", "u2022", "u2192", "u2014", "u00a0", "u200b", "u2028"}

NoFrame == [mode |-> "none"]

InitSan ==
    /\ pc = "start"
    /\ text \in StringsUpTo(SanAlphabet, MaxSanLen)
    /\ cv_text = <<>>
    /\ out1 = <<>>
    /\ out2 = <<>>
    /\ lines = <<>>
    /\ sections = <<>>
    /\ current_section = <<>>
    /\ current_content = <<>>
    /\ words = <<>>
    /\ line = <<>>
    /\ frame = NoFrame
    /\ pdf = NewPDF

Sanitize ==
    /\ pc = "start"
    /\ out1' = sanitize_text(text)
    /\ pc' = "once"
    /\ UNCHANGED <<cv_text, text, out2, parseVars, loopVars, pdf>>

SanitizeAgain ==
    /\ pc = "once"
    /\ out2' = sanitize_text(out1)
    /\ pc' = "twice"
    /\ UNCHANGED <<cv_text, text, out1, parseVars, loopVars, pdf>>

NextSan == Sanitize \/ SanitizeAgain

SpecSan == InitSan /\ [][NextSan]_vars

\* C9: sanitize_text is idempotent: sanitizing a sanitized text changes nothing.
SanitizeIdempotent == pc = "twice" => out2 = out1

\* A text with a zero-width space between two spaces and an arrow was
\* sanitized twice, and the first pass changed it.
SanitizeWitness ==
    /\ pc = "twice"
    /\ Contains(text, <<" ", "u200b", " ">>)
    /\ Contains(text, <<"u2192">>)
    /\ out1 # text
    /\ out1 # <<>>


-----------------------------------------------------------------------------
(* The specification of the wrap loops: one add_wrapped_text or one        *)
(* add_bullet_point call on any short text, an iteration of its loop at a  *)
(* time.  The call starts right below the page header or, after 36 lines   *)
(* of 6 mm, one line above the page break.                                 *)

WrapAlphabet == {"i", "m", " "}
StartYs == {t_margin + 25 + 20, t_margin + 25 + 20 + 36 * line_height}

InitWrap ==
    /\ pc = "start"
    /\ text \in StringsUpTo(WrapAlphabet, MaxWrapLen)
    /\ \E y0 \in StartYs : pdf = [add_page(NewPDF) EXCEPT !.y = y0]
    /\ cv_text = <<>>
    /\ out1 = <<>>
    /\ out2 = <<>>
    /\ lines = <<>>
    /\ sections = <<>>
    /\ current_section = <<>>
    /\ current_content = <<>>
    /\ words = <<>>
    /\ line = <<>>
    /\ frame = NoFrame

WrappedBegin ==
    /\ pc = "start"
    /\ pdf' = wrapped_begin(pdf)
    /\ words' = SplitWs(sanitize_text(text))
    /\ line' = <<>>
    /\ frame' = [mode |-> "wrapped", start_x |-> pdf.x, indent |-> 0]
    /\ pc' = "loop"
    /\ UNCHANGED <<cv_text, text, sanVars, parseVars>>

WrappedStep ==
    /\ pc = "loop" /\ frame.mode = "wrapped" /\ words # <<>>
    /\ LET st == wrapped_step([pdf |-> pdf, line |-> line], Head(words))
       IN  pdf' = st.pdf /\ line' = st.line
    /\ words' = Tail(words)
    /\ UNCHANGED <<pc, cv_text, text, sanVars, parseVars, frame>>

WrappedEnd ==
    /\ pc = "loop" /\ frame.mode = "wrapped" /\ words = <<>>
    /\ pdf' = wrapped_end([pdf |-> pdf, line |-> line])
    /\ pc' = "done"
    /\ UNCHANGED <<cv_text, text, sanVars, parseVars, loopVars>>

BulletBegin ==
    /\ pc = "start"
    /\ pdf' = bullet_begin(pdf, 5)
    /\ words' = SplitWs(sanitize_text(text))
    /\ line' = <<>>
    /\ frame' = [mode |-> "bullet", start_x |-> pdf.x, indent |-> 5]
    /\ pc' = "loop"
    /\ UNCHANGED <<cv_text, text, sanVars, parseVars>>

BulletStep ==
    /\ pc = "loop" /\ frame.mode = "bullet" /\ words # <<>>
    /\ LET st == bullet_step([pdf |-> pdf, line |-> line], Head(words),
                             frame.start_x, frame.indent)
       IN  pdf' = st.pdf /\ line' = st.line
    /\ words' = Tail(words)
    /\ UNCHANGED <<pc, cv_text, text, sanVars, parseVars, frame>>

BulletEnd ==
    /\ pc = "loop" /\ frame.mode = "bullet" /\ words = <<>>
    /\ pdf' = bullet_end([pdf |-> pdf, line |-> line], frame.start_x, frame.indent)
    /\ pc' = "done"
    /\ UNCHANGED <<cv_text, text, sanVars, parseVars, loopVars>>

NextWrap ==
    \/ WrappedBegin \/ WrappedStep \/ WrappedEnd
    \/ BulletBegin \/ BulletStep \/ BulletEnd

SpecWrap == InitWrap /\ [][NextWrap]_vars

\* The cells the running call placed as lines of text, in order.
SelectLines(log) == SelectSeq(log, LAMBDA e : e.op = "text" /\ e.ln = 1)
EmittedLines == SelectLines(pdf.log)

\* The width the running call wraps against.
AvailableWidth ==
    IF frame.mode = "bullet" THEN BulletWidth(frame.start_x, frame.indent)
    ELSE WrappedWidth

\* C1: every emitted line holds at least one word, and a line of two or more
\* words never measures more than the available width.
WrapLinesFit ==
    pc \in {"loop", "done"} =>
        \A i \in 1..Len(EmittedLines) :
            LET t == EmittedLines[i].txt
            IN  /\ Len(SplitWs(t)) >= 1
                /\ (get_string_width(t) <= AvailableWidth \/ Len(SplitWs(t)) = 1)

\* A finished call that emitted a line of two words that fits and a line of
\* one word wider than the available width.
WrapLinesFitWitness ==
    /\ pc = "done"
    /\ \E i, j \in 1..Len(EmittedLines) :
          /\ Len(SplitWs(EmittedLines[i].txt)) >= 2
          /\ Len(SplitWs(EmittedLines[j].txt)) = 1
          /\ get_string_width(EmittedLines[j].txt) > AvailableWidth

\* The texts of a sequence of cells.
Texts(evs) == [i \in 1..Len(evs) |-> evs[i].txt]

BulletHangingIndent ==
    /\ frame.mode = "bullet" =>
          \A i \in 1..Len(EmittedLines) :
             /\ EmittedLines[i].x = frame.start_x + frame.indent + 5
             /\ EmittedLines[i].x > l_margin
    /\ frame.mode = "wrapped" =>
          \A i \in 1..Len(EmittedLines) : EmittedLines[i].x = l_margin

\* A finished bullet block of three lines, the page broken between two of them.
BulletHangingIndentWitness ==
    /\ pc = "done" /\ frame.mode = "bullet"
    /\ Len(EmittedLines) >= 3
    /\ EmittedLines[1].page # EmittedLines[3].page

-----------------------------------------------------------------------------
(* The specification of the page layout: after PDF() and add_page(), any   *)
(* sequence of cells of the heights format_cv uses and of ln calls.  The   *)
(* log holds what the last call drew.                                      *)

LineHeights == {line_height, 10}
Advances == {1, 2, 4, 5, 8, section_spacing}

InitPage ==
    /\ pc = "page"
    /\ pdf = add_page(NewPDF)
    /\ text = <<>>
    /\ cv_text = <<>>
    /\ out1 = <<>>
    /\ out2 = <<>>
    /\ lines = <<>>
    /\ sections = <<>>
    /\ current_section = <<>>
    /\ current_content = <<>>
    /\ words = <<>>
    /\ line = <<>>
    /\ frame = NoFrame

\* emitLine(height): cell(0, height, txt, ln=1)
EmitLine ==
    /\ \E h \in LineHeights :
          /\ pdf.y + h > PageBreakTrigger => pdf.page < MaxPages
          /\ pdf' = Cell([pdf EXCEPT !.log = <<>>], 0, h, <<>>, 1)
    /\ UNCHANGED <<pc, cv_text, text, sanVars, parseVars, loopVars>>

\* advance(deltaY): ln(deltaY)
Advance ==
    /\ pdf.y <= PageBreakTrigger
    /\ \E d \in Advances : pdf' = Ln([pdf EXCEPT !.log = <<>>], d)
    /\ UNCHANGED <<pc, cv_text, text, sanVars, parseVars, loopVars>>

NextPage == EmitLine \/ Advance

SpecPage == InitPage /\ [][NextPage]_vars

\* C8: every cell is placed with y + height within the page break trigger; a
\* cell that does not fit where the cursor is draws the footer of the page,
\* then the header of a new page, and is placed below that header.
EmitLineStep ==
    pdf'.log # <<>> =>
        LET n == Len(pdf'.log)
            e == pdf'.log[n]
        IN  /\ e.op = "text"
            /\ e.y + e.h <= PageBreakTrigger
            /\ pdf'.y = e.y + e.h
            /\ IF pdf.y + e.h > PageBreakTrigger
               THEN /\ n = 3
                    /\ pdf'.log[1].op = "footer" /\ pdf'.log[1].page = pdf.page
                    /\ pdf'.log[2].op = "header" /\ pdf'.log[2].page = pdf.page + 1
                    /\ e.page = pdf.page + 1
                    /\ e.y = t_margin + 25 + 20
               ELSE n = 1 /\ e.page = pdf.page /\ e.y = pdf.y

EmitLinePaginates == [][EmitLineStep]_vars

\* A cell that did not fit was placed on the next page by the last call.
EmitLinePaginatesWitness ==
    /\ Len(pdf.log) = 3
    /\ pdf.log[1].op = "footer"
    /\ pdf.log[3].op = "text" /\ pdf.log[3].page = 2


-----------------------------------------------------------------------------
(* A run of generate_pdf: PDF(), add_page(), then format_cv(cv_text):      *)
(* parse_cv_sections a line at a time, then the sections in the order of   *)
(* format_cv.  An exception ends the run at pc = "error".                  *)

InitCV(texts) ==
    /\ pc = "start"
    /\ cv_text \in texts
    /\ pdf = add_page(NewPDF)
    /\ text = <<>>
    /\ out1 = <<>>
    /\ out2 = <<>>
    /\ lines = <<>>
    /\ sections = <<>>
    /\ current_section = <<>>
    /\ current_content = <<>>
    /\ words = <<>>
    /\ line = <<>>
    /\ frame = NoFrame

ParseStart ==
    /\ pc = "start"
    /\ lines' = SplitOn(cv_text, NL)
    /\ sections' = <<>>
    /\ current_section' = <<>>
    /\ current_content' = <<>>
    /\ pc' = "parse"
    /\ UNCHANGED <<cv_text, text, sanVars, loopVars, pdf>>

ParseLine ==
    /\ pc = "parse" /\ lines # <<>>
    /\ LET st == parse_line([sections |-> sections,
                             current_section |-> current_section,
                             current_content |-> current_content], Head(lines))
       IN  /\ sections' = st.sections
           /\ current_section' = st.current_section
           /\ current_content' = st.current_content
    /\ lines' = Tail(lines)
    /\ UNCHANGED <<pc, cv_text, text, sanVars, loopVars, pdf>>

ParseEnd ==
    /\ pc = "parse" /\ lines = <<>>
    /\ sections' = parse_end([sections |-> sections,
                              current_section |-> current_section,
                              current_content |-> current_content])
    /\ pc' = "personal"
    /\ UNCHANGED <<cv_text, text, sanVars, loopVars, pdf, lines, current_section,
                   current_content>>

FormatPersonal ==
    /\ pc = "personal"
    /\ pdf' = format_personal(pdf, sections)
    /\ pc' = "summary"
    /\ UNCHANGED <<cv_text, text, sanVars, parseVars, loopVars>>

FormatSummary ==
    /\ pc = "summary"
    /\ pdf' = format_summary(pdf, sections)
    /\ pc' = "education"
    /\ UNCHANGED <<cv_text, text, sanVars, parseVars, loopVars>>

FormatEducation ==
    /\ pc = "education"
    /\ pdf' = format_education(pdf, sections)
    /\ pc' = "experience"
    /\ UNCHANGED <<cv_text, text, sanVars, parseVars, loopVars>>

FormatExperience ==
    /\ pc = "experience"
    /\ pdf' = format_experience(pdf, sections)
    /\ pc' = IF pdf'.ok THEN "skills" ELSE "error"
    /\ UNCHANGED <<cv_text, text, sanVars, parseVars, loopVars>>

FormatSkills ==
    /\ pc = "skills"
    /\ pdf' = format_skills(pdf, sections)
    /\ pc' = "other"
    /\ UNCHANGED <<cv_text, text, sanVars, parseVars, loopVars>>

FormatOther ==
    /\ pc = "other"
    /\ pdf' = format_other(pdf, sections, other_sections)
    /\ pc' = "done"
    /\ UNCHANGED <<cv_text, text, sanVars, parseVars, loopVars>>

NextCV ==
    \/ ParseStart \/ ParseLine \/ ParseEnd
    \/ FormatPersonal \/ FormatSummary \/ FormatEducation
    \/ FormatExperience \/ FormatSkills \/ FormatOther

\* All texts of 1 to n lines taken from the set L.
TextsOf(L, n) == {Join(ls, NL) : ls \in UNION {[1..k -> L] : k \in 1..n}}

\* The position of the run is after parse_cv_sections.
Parsed == pc \in {"personal", "summary", "education", "experience", "skills",
                  "other", "done", "error"}

\* The add_experience calls made so far.
ExperienceCalls == SelectSeq(pdf.log, LAMBDA e : e.op = "add_experience")

-----------------------------------------------------------------------------
(* Texts of section headers in any order and case, with content lines. *)

SectionLines ==
    {<<"E", "D", "U", "C", "A", "T", "I", "O", "N">>,
     <<"S", "k", "i", "l", "l", "s">>,
     <<"L", "A", "N", "G", "U", "A", "G", "E", "S">>,
     <<"P", "r", "o", "j", "e", "c", "t", "s">>,
     <<"M", "I", "T">>,
     <<>>}

InitSections == InitCV(TextsOf(SectionLines, MaxLines))

SpecSections == InitSections /\ [][NextCV]_vars

\* The content lines that follow the header lines of marker key, in the order
\* of the text: the lines of every occurrence of the section.
RECURSIVE Owned(_, _, _)
Owned(ls, cur, key) ==
    IF ls = <<>> THEN <<>>
    ELSE LET ln_ == Strip(Head(ls))
             hit == Matching(Upper(ln_))
         IN  IF ln_ = <<>> THEN Owned(Tail(ls), cur, key)
             ELSE IF hit # {}
             THEN Owned(Tail(ls), section_markers[Min(hit)], key)
             ELSE LET own == IF cur = <<>> THEN PERSONAL_INFORMATION ELSE cur
                  IN  (IF own = key THEN <<ln_>> ELSE <<>>)
                      \o Owned(Tail(ls), own, key)

\* C3: the entry of a marker holds the content lines of all the occurrences of
\* its section, in their order in the text.
RepeatedSectionsMerge ==
    Parsed =>
        \A key \in DOMAIN sections :
            sections[key] = Join(Owned(SplitOn(cv_text, NL), <<>>, key), NL)

\* The titles add_section_title drew, in order.
TitlesDrawn ==
    Texts(SelectSeq(pdf.log,
                    LAMBDA e : e.op = "text" /\ e.font = <<"Helvetica", "B", 14>>))

\* The fixed order of the sections: the keys of each, and the title drawn.
RenderOrder ==
    << [keys |-> {PERSONAL_INFORMATION}, title |-> PERSONAL_INFORMATION],
       [keys |-> {PROFESSIONAL_SUMMARY}, title |-> PROFESSIONAL_SUMMARY],
       [keys |-> {EDUCATION}, title |-> EDUCATION],
       [keys |-> {EXPERIENCE}, title |-> PROFESSIONAL_EXPERIENCE],
       [keys |-> {PROFESSIONAL_EXPERIENCE}, title |-> PROFESSIONAL_EXPERIENCE],
       [keys |-> {SKILLS, TECHNICAL_SKILLS}, title |-> TECHNICAL_SKILLS],
       [keys |-> {PROJECTS}, title |-> PROJECTS],
       [keys |-> {PUBLICATIONS}, title |-> PUBLICATIONS],
       [keys |-> {SELECTED_PUBLICATIONS}, title |-> SELECTED_PUBLICATIONS],
       [keys |-> {CERTIFICATIONS}, title |-> CERTIFICATIONS],
       [keys |-> {AWARDS_HONORS}, title |-> AWARDS_HONORS],
       [keys |-> {LANGUAGES}, title |-> LANGUAGES] >>

\* The titles of the sections of the map, in the fixed order.
RECURSIVE ExpectedTitles(_, _)
ExpectedTitles(map, order) ==
    IF order = <<>> THEN <<>>
    ELSE (IF Head(order).keys \cap DOMAIN map # {}
          THEN <<Head(order).title>> ELSE <<>>)
         \o ExpectedTitles(map, Tail(order))

IsPrefix(a, b) == Len(a) <= Len(b) /\ SubSeq(b, 1, Len(a)) = a

\* The titles drawn so far are the first of the expected ones; when format_cv
\* returns they are all of them.
TitlesInOrder ==
    Parsed =>
        /\ IsPrefix(TitlesDrawn, ExpectedTitles(sections, RenderOrder))
        /\ pc = "done" => TitlesDrawn = ExpectedTitles(sections, RenderOrder)

\* A step of format_cv for a section that is not in the map draws nothing and
\* leaves the cursor where it is.
AbsentSectionStep ==
    /\ (pc = "personal" /\ PERSONAL_INFORMATION \notin DOMAIN sections) => pdf' = pdf
    /\ (pc = "summary" /\ PROFESSIONAL_SUMMARY \notin DOMAIN sections) => pdf' = pdf
    /\ (pc = "education" /\ EDUCATION \notin DOMAIN sections) => pdf' = pdf
    /\ (pc = "experience" /\ EXPERIENCE \notin DOMAIN sections
          /\ PROFESSIONAL_EXPERIENCE \notin DOMAIN sections) => pdf' = pdf
    /\ (pc = "skills" /\ SKILLS \notin DOMAIN sections
          /\ TECHNICAL_SKILLS \notin DOMAIN sections) => pdf' = pdf
    /\ (pc = "other" /\ \A i \in 1..Len(other_sections) :
                           other_sections[i] \notin DOMAIN sections) => pdf' = pdf
    /\ (pc = "other" /\ pc' = "done") =>
          \A i \in 1..Len(pdf'.log) :
             (i > Len(pdf.log) /\ pdf'.log[i].op = "text"
                /\ pdf'.log[i].font = <<"Helvetica", "B", 14>>)
               => pdf'.log[i].txt \in DOMAIN sections

\* C10: format_cv draws the sections of the map in one fixed order, whatever
\* their order in the text, and draws nothing for a section not in the map.
FixedRenderOrder == []TitlesInOrder /\ [][AbsentSectionStep]_vars

\* A text with the languages before the education was formatted: both
\* sections and no other are in the map, and the education was drawn first.
FixedRenderOrderWitness ==
    /\ pc = "done"
    /\ SplitOn(cv_text, NL)[1] = LANGUAGES
    /\ DOMAIN sections = {EDUCATION, LANGUAGES}
    /\ TitlesDrawn = <<EDUCATION, LANGUAGES>>

-----------------------------------------------------------------------------
(* Texts of one experience section: the header, then lines of entries and  *)
(* blank lines.                                                            *)

MaxExpLines == 5

ExperienceLines ==
    {<<"E", "n", "g", " ", "|", " ", "A", "c", "m", "e">>,
     <<"2", "0", "2", "0">>,
     <<"-", " ", "x">>,
     <<>>}

InitExperience ==
    InitCV({EXPERIENCE \o NL \o t : t \in TextsOf(ExperienceLines, MaxExpLines)})

SpecExperience == InitExperience /\ [][NextCV]_vars

\* The blocks of the text below its first line: the non-blank parts between
\* blank lines.
BlocksOf(t) ==
    SelectSeq(SplitOn(Join(Tail(SplitOn(t, NL)), NL), <<"\n", "\n">>),
              LAMBDA b : Strip(b) # <<>>)

\* The text holds exactly two blocks, each of two non-empty lines or more.
TwoEntryDocument ==
    /\ Len(BlocksOf(cv_text)) = 2
    /\ \A i \in 1..2 : Len(StrippedLines(SplitOn(BlocksOf(cv_text)[i], NL))) >= 2

\* C4: formatting a document whose experience section holds two entries makes
\* two add_experience calls, each with a role and with dates.
TwoEntriesRendered ==
    (pc = "done" /\ TwoEntryDocument) =>
        /\ Len(ExperienceCalls) = 2
        /\ \A i \in 1..Len(ExperienceCalls) :
              ExperienceCalls[i].role # <<>> /\ ExperienceCalls[i].dates # <<>>

-----------------------------------------------------------------------------
(* Texts of one experience entry: the header, a role line of words and     *)
(* delimiters, and a line of dates.                                        *)

MaxRoleTokens == 5

RoleTokens ==
    {<<"D", "e", "v">>, <<"A", "c", "m", "e">>, <<"-">>, <<"a", "t">>, <<"A", "T">>, <<"|">>}

Dates2020 ==
    <<"2", "0", "2", "0">>

RoleLines == {Join(ts, Space) : ts \in UNION {[1..k -> RoleTokens] : k \in 1..MaxRoleTokens}}

InitRole ==
    InitCV({EXPERIENCE \o NL \o r \o NL \o Dates2020 : r \in RoleLines})

SpecRole == InitRole /\ [][NextCV]_vars

\* C5: parsing the sections and rendering the entries never raises an error.
NeverRaises == pc # "error" /\ pdf.ok

\* The role and company of a header line by the priority '|', then ' - ',
\* then ' at ' in any letter case, then the whole line as the role.
ByPriority(header_line) ==
    IF Contains(header_line, <<"|">>)
    THEN SplitOnce(header_line, <<"|">>)
    ELSE IF Contains(header_line, <<" ", "-", " ">>)
    THEN SplitOnce(header_line, <<" ", "-", " ">>)
    ELSE IF Contains(Lower(header_line), <<" ", "a", "t", " ">>)
    THEN LET i == Find(Lower(header_line), <<" ", "a", "t", " ">>)
         IN  <<SubSeq(header_line, 1, i - 1),
               SubSeq(header_line, i + 4, Len(header_line))>>
    ELSE <<header_line, <<>> >>

\* The stripped, non-empty lines of the experience section of the map.
ExperienceSectionLines ==
    IF EXPERIENCE \in DOMAIN sections
    THEN StrippedLines(SplitOn(sections[EXPERIENCE], NL))
    ELSE <<>>

\* C6: the role and company of an entry are those of its header line by the
\* priority '|', ' - ', ' at ' in any case, whole line.
RoleCompanyByPriority ==
    (pc = "done" /\ Len(ExperienceSectionLines) >= 2) =>
        /\ Len(ExperienceCalls) = 1
        /\ ExperienceCalls[1].role = Strip(ByPriority(ExperienceSectionLines[1])[1])
        /\ ExperienceCalls[1].company = Strip(ByPriority(ExperienceSectionLines[1])[2])

-----------------------------------------------------------------------------
(* The JSON branch of main: the translated CV is a JSON object, which main *)
(* turns into text with json.dumps(structured_data, indent=2) and hands to *)
(* format_cv.  A JSON value is [t |-> "str", v |-> characters] or          *)
(* [t |-> "list", v |-> values]; an object is a sequence of <<key, value>>.*)
(* The values here are ASCII, so ensure_ascii changes nothing.             *)

Quote == "\""
Backslash == "\\"

\* json.dumps of a string: quoted, with the quote and the backslash escaped.
json_string(s) ==
    <<Quote>> \o Replace(Replace(s, Backslash, <<Backslash, Backslash>>),
                         Quote, <<Backslash, Quote>>) \o <<Quote>>

\* The indentation of nesting level n under indent=2.
json_indent(n) == [i \in 1..(2 * n) |-> " "]

\* json.dumps(v, indent=2) of a string or a list of strings at nesting level n.
json_value(v, n) ==
    IF v.t = "str" THEN json_string(v.v)
    ELSE IF v.v = <<>> THEN <<"[", "]">>
    ELSE <<"[">> \o NL
         \o Join([i \in 1..Len(v.v) |->
                     json_indent(n + 1) \o json_string(v.v[i].v)], <<",">> \o NL)
         \o NL \o json_indent(n) \o <<"]">>

\* json.dumps(structured_data, indent=2) of an object.
json_dumps(obj) ==
    IF obj = <<>> THEN <<"{", "}">>
    ELSE <<"{">> \o NL
         \o Join([i \in 1..Len(obj) |->
                     json_indent(1) \o json_string(obj[i][1]) \o <<":", " ">>
                     \o json_value(obj[i][2], 1)], <<",">> \o NL)
         \o NL \o <<"}">>

JStr(s) == [t |-> "str", v |-> s]
JList(l) == [t |-> "list", v |-> l]

full_name == <<"f", "u", "l", "l", "_", "n", "a", "m", "e">>
skills == <<"s", "k", "i", "l", "l", "s">>

MaxSkills == 2
JsonNames == {<<"B", "o">>, <<"A", "l", " ", "\"", "X", "\"">>}
JsonSkills == {<<"G", "o">>, <<"S", "Q", "L">>}

\* The objects json.loads can return for the prompt's schema, cut down to the
\* keys full_name and skills, each present or not.
StructuredData ==
    LET names == {<<>>} \cup {<< <<full_name, JStr(s)>> >> : s \in JsonNames}
        lists == UNION {[1..k -> {JStr(s) : s \in JsonSkills}] : k \in 0..MaxSkills}
        sk == {<<>>} \cup {<< <<skills, JList(l)>> >> : l \in lists}
    IN  {a \o b : a \in names, b \in sk}

InitJson ==
    /\ pc = "main"
    /\ frame \in {[mode |-> "main", structured_data |-> d] : d \in StructuredData}
    /\ cv_text = <<>>
    /\ pdf = NewPDF
    /\ text = <<>>
    /\ out1 = <<>>
    /\ out2 = <<>>
    /\ lines = <<>>
    /\ sections = <<>>
    /\ current_section = <<>>
    /\ current_content = <<>>
    /\ words = <<>>
    /\ line = <<>>

\* pdf = PDF(); pdf.add_page(); pdf.format_cv(json.dumps(structured_data, indent=2))
MainJson ==
    /\ pc = "main"
    /\ pdf' = add_page(NewPDF)
    /\ cv_text' = json_dumps(frame.structured_data)
    /\ pc' = "start"
    /\ UNCHANGED <<text, sanVars, parseVars, loopVars>>

NextJson == MainJson \/ NextCV

SpecJson == InitJson /\ [][NextJson]_vars

\* C11: on the JSON branch of main the section parser is never run: no run
\* that starts from a JSON object enters the line loop of parse_cv_sections.
JsonBypassesParser == frame.mode = "main" => pc # "parse"

-----------------------------------------------------------------------------
(* Texts of personal information lines: labels and values with code points *)
(* and runs of spaces that sanitize_text rewrites.                         *)

MaxPersonalLines == 2

PersonalLines ==
    {<<"N", ":", " ", "A">>,
     <<"N", ":", " ", "A", " ", " ", "B">>,
     <<"N", "u2013", ":", " ", "A">>,
     <<"A", " ", " ", "B", "u2014">>,
     <<"u2022", " ", "A">>}

InitPersonal == InitCV(TextsOf(PersonalLines, MaxPersonalLines))

SpecPersonal == InitPersonal /\ [][NextCV]_vars

\* The texts of the cells drawn so far.
PlacedTexts == Texts(SelectSeq(pdf.log, LAMBDA e : e.op = "text"))

\* C12: every text placed on a page has passed through sanitize_text: it
\* holds no code point that sanitize_text replaces and no run of whitespace
\* that it collapses, so sanitizing it again changes nothing.
PlacedTextsSanitized ==
    \A i \in 1..Len(PlacedTexts) : sanitize_text(PlacedTexts[i]) = PlacedTexts[i]

-----------------------------------------------------------------------------
(* add_bullet_point called with any indent: the available width is         *)
(* w - r_margin - (start_x + indent + 5), which an indent of 175 or more   *)
(* at the left margin makes zero or negative.                              *)

MaxIndentTextLen == 4
IndentAlphabet == {"i", " "}
Indents == {5, 170, 175, 180}

InitIndent ==
    /\ pc = "start"
    /\ text \in StringsUpTo(IndentAlphabet, MaxIndentTextLen)
    /\ pdf = add_page(NewPDF)
    /\ cv_text = <<>>
    /\ out1 = <<>>
    /\ out2 = <<>>
    /\ lines = <<>>
    /\ sections = <<>>
    /\ current_section = <<>>
    /\ current_content = <<>>
    /\ words = <<>>
    /\ line = <<>>
    /\ frame = NoFrame

\* add_bullet_point(text, indent) up to its loop.
BulletBeginIndent ==
    /\ pc = "start"
    /\ \E indent \in Indents :
          /\ pdf' = bullet_begin(pdf, indent)
          /\ frame' = [mode |-> "bullet", start_x |-> pdf.x, indent |-> indent]
    /\ words' = SplitWs(sanitize_text(text))
    /\ line' = <<>>
    /\ pc' = "loop"
    /\ UNCHANGED <<cv_text, text, sanVars, parseVars>>

NextIndent == BulletBeginIndent \/ BulletStep \/ BulletEnd

SpecIndent == InitIndent /\ [][NextIndent]_vars

\* C13: a wrap against an available width of zero or less ends in an error
\* and emits no line, and a wrap against a positive width ends without one.
WrapFailsIffNoWidth ==
    pc = "done" =>
        IF AvailableWidth <= 0
        THEN ~pdf.ok /\ EmittedLines = <<>>
        ELSE pdf.ok

-----------------------------------------------------------------------------
\* Every block of the experience section is one non-empty line.
SingleLineBlocks ==
    /\ BlocksOf(cv_text) # <<>>
    /\ \A i \in 1..Len(BlocksOf(cv_text)) :
          Len(StrippedLines(SplitOn(BlocksOf(cv_text)[i], NL))) = 1

\* C14: an experience block of a single non-empty line makes no entry: when
\* every block of the section is such a block, the run ends without an error,
\* makes no add_experience call and places nothing but the section title.
SingleLineBlockDropped ==
    (pc \in {"done", "error"} /\ SingleLineBlocks) =>
        /\ pc = "done"
        /\ ExperienceCalls = <<>>
        /\ PlacedTexts = <<Upper(TitleExperience)>>

-----------------------------------------------------------------------------
(* Texts of header lines in lower and mixed case, with content lines. *)

MaxCaseLines == 4

CaseLines ==
    {<<"S", "k", "i", "l", "l", "s">>,
     <<"e", "d", "u", "c", "a", "t", "i", "o", "n">>,
     <<"M", "I", "T">>,
     <<>>}

InitCase == InitCV(TextsOf(CaseLines, MaxCaseLines))

SpecCase == InitCase /\ [][NextCV]_vars

\* The line is a section header: a marker matches it, whatever its case.
IsHeader(raw) == Matching(Upper(Strip(raw))) # {}

\* s.capitalize()
Capitalize(s) == IF s = <<>> THEN s ELSE <<UpperChar(Head(s))>> \o Lower(Tail(s))

\* The spellings of a line that differ in letter case only; a line that is
\* not a header is kept as it is.
LineVariants(raw) ==
    IF IsHeader(raw) THEN {raw, Upper(raw), Lower(raw), Capitalize(raw)} ELSE {raw}

\* The sequences of lines that differ from ls in the case of one header line.
VariantsOf(ls) ==
    {ls} \cup UNION {{[ls EXCEPT ![i] = v] : v \in LineVariants(ls[i])} : i \in 1..Len(ls)}

ParseState ==
    [sections |-> sections, current_section |-> current_section,
     current_content |-> current_content]

\* C15: section detection is case-insensitive: whatever the letter case of a
\* header line, the loop of parse_cv_sections opens the same section for it
\* and leaves the same state, and the map of a text is the map of every text
\* that differs from it in the case of a header line only.
HeaderCaseInsensitive ==
    /\ (pc = "parse" /\ lines # <<>>) =>
          \A v \in LineVariants(Head(lines)) :
             parse_line(ParseState, v) = parse_line(ParseState, Head(lines))
    /\ pc = "personal" =>
          \A v \in VariantsOf(SplitOn(cv_text, NL)) :
             parse_cv_sections(Join(v, NL)) = sections

\* A parsed text whose header line is not in upper case ('Skills') and that
\* opened the section of the marker SKILLS, which holds the line below it.
HeaderCaseInsensitiveWitness ==
    /\ pc = "personal"
    /\ \E i \in 1..Len(SplitOn(cv_text, NL)) :
          LET l == SplitOn(cv_text, NL)[i]
          IN  IsHeader(l) /\ l # Upper(l) /\ Matching(Upper(l)) = {6, 7}
    /\ SKILLS \in DOMAIN sections
    /\ sections[SKILLS] # <<>>

-----------------------------------------------------------------------------
\* Marker i and the uppercased line u: one is a substring of the other.
MarkerMatches(i, u) ==
    Contains(u, section_markers[i]) \/ Contains(section_markers[i], u)

\* The first marker, in the order of section_markers, that matches u.
FirstMarker(u) ==
    section_markers[CHOOSE i \in 1..Len(section_markers) :
                        /\ MarkerMatches(i, u)
                        /\ \A j \in 1..(i - 1) : ~MarkerMatches(j, u)]

\* What one iteration of the loop of parse_cv_sections does with its line.
HeaderDetectionStep ==
    (pc = "parse" /\ lines # <<>>) =>
        LET ln_ == Strip(Head(lines))
            u == Upper(ln_)
        IN  IF ln_ = <<>>
            THEN UNCHANGED <<sections, current_section, current_content>>
            ELSE IF \E i \in 1..Len(section_markers) : MarkerMatches(i, u)
            THEN /\ current_section' = FirstMarker(u)
                 /\ current_content' = <<>>
            ELSE /\ current_content' = Append(current_content, ln_)
                 /\ current_section' \in {current_section, PERSONAL_INFORMATION}
                 /\ sections' = sections

\* The lines a section holds: none is blank and none is a header line.
ContentLines(c) == IF c = <<>> THEN <<>> ELSE SplitOn(c, NL)
NoHeaderInContent ==
    /\ \A i \in 1..Len(current_content) :
          current_content[i] # <<>> /\ ~IsHeader(current_content[i])
    /\ \A k \in DOMAIN sections :
          \A i \in 1..Len(ContentLines(sections[k])) :
             /\ Strip(ContentLines(sections[k])[i]) # <<>>
             /\ ~IsHeader(ContentLines(sections[k])[i])

\* C16: a non-blank line is a section header iff a marker is a substring of
\* the uppercased line or the uppercased line is a substring of a marker; it
\* opens the first such marker in the order of section_markers; a header line
\* is never added to the content of a section, and a blank line is neither
\* added to content nor closes the open section.
HeaderDetection == []NoHeaderInContent /\ [][HeaderDetectionStep]_vars

\* The text 'Skills', 'MIT', a blank line, 'MIT' after parsing: the header
\* opened SKILLS, the first of the two markers it matches, and the blank line
\* left the section open for the line after it.
HeaderDetectionWitness ==
    /\ pc = "personal"
    /\ cv_text = Join(<< <<"S", "k", "i", "l", "l", "s">>, <<"M", "I", "T">>, <<>>,
                         <<"M", "I", "T">> >>, NL)
    /\ DOMAIN sections = {SKILLS}
    /\ sections[SKILLS] = <<"M", "I", "T", "\n", "M", "I", "T">>

-----------------------------------------------------------------------------
\* C17: a run is drawn with the style its caller set just before it: after an
\* add_experience call the role is drawn in bold black of size 11, the
\* company in the link colour and the dates in italic of size 10 in the
\* label colour.
RunsKeepCallerStyle ==
    \A k \in 1..Len(pdf.log) :
       pdf.log[k].op = "add_experience" =>
          LET c == pdf.log[k]
          IN  \A j \in (k + 1)..Len(pdf.log) :
                 pdf.log[j].op = "text" =>
                    LET e == pdf.log[j]
                    IN  /\ (e.txt = c.role /\ c.role # c.company) =>
                              e.font = <<"Helvetica", "B", 11>> /\ e.color = "black"
                        /\ (e.txt = c.company /\ c.role # c.company) =>
                              e.font = <<"Helvetica", "", 11>> /\ e.color = link_color
                        /\ e.txt = c.dates =>
                              e.font = <<"Helvetica", "I", 10>> /\ e.color = label_color

-----------------------------------------------------------------------------
\* The event is the separator line of an experience entry.
IsSeparator(e) == e.op = "rule" /\ e.x = l_margin + 10 /\ e.x2 = PageW - r_margin - 10

\* C18: add_experience draws its separator line before every entry but the
\* first: no separator line follows the first add_experience call of a
\* document, and one follows every later call.
SeparatorExceptFirst ==
    \A k \in 1..Len(pdf.log) :
       pdf.log[k].op = "add_experience" =>
          LET first == \A j \in 1..(k - 1) : pdf.log[j].op # "add_experience"
              drawn == k < Len(pdf.log) /\ IsSeparator(pdf.log[k + 1])
          IN  pc \in {"skills", "other", "done"} => (drawn <=> ~first)

=============================================================================
